---- MODULE Spec2Model ----
(***************************************************************************)
(* The voice turn-taking controller of the React component App             *)
(* (src/unnamed/part_001, lines 1-475: the variant with the interrupt      *)
(* branch).  The component's refs and state are the variables; every       *)
(* browser callback the component registers (audio frame, getUserMedia     *)
(* resolution, recorder stop, ceiling timer, fetch completion, audio       *)
(* element events, promise reactions) is one action.                       *)
(*                                                                         *)
(* Handlers are written as transformers of a record of the component's     *)
(* state, in the order of the statements of the source, so that a helper   *)
(* (stopListening, startListening, startRecording, ...) is used wherever   *)
(* the source calls it.                                                    *)
(*                                                                         *)
(* RMS values are in hundredths: 2 stands for 0.02.                        *)
(***************************************************************************)
EXTENDS Integers, Sequences, FiniteSets, TLC

VARIABLES
  started,            \* the mount effect has run (start())
  status,             \* useState status: what the component shows
  isRecordingRef,     \* isRecordingRef.current
  speechBufferCount,  \* let speechBufferCount, shared by every frame callback
  vadRef,             \* processorRef/sourceRef/audioContextRef/streamRef hold an open source
  vadLeaked,          \* open sources no ref points to any more (their callback still runs)
  openPending,        \* startListening calls awaiting getUserMedia
  recPending,         \* startRecording calls awaiting getUserMedia
  overtaken,          \* opens under way that were requested before the last stopListening call
  micStreams,         \* streams of startRecording's getUserMedia whose tracks are live
  recorders,          \* MediaRecorders in state 'recording' (each with its ceiling timer armed)
  staleTimers,        \* ceiling timers still armed whose recorder has stopped
  stopQueued,         \* recorders stopped whose onstop has not run yet
  inflight,           \* processAudio calls awaiting fetch
  gathered,           \* the size of the data a stopped recorder holds for its dataavailable event
  audioChunksRef,     \* audioChunksRef.current: the sizes of the chunks it holds
  utterance,          \* the size of the Blob of the last processAudio call
  micro,              \* promise reactions to run before the next browser task
  player,             \* the audio element: idle, starting, playing, paused, ended, stopped, failed
  handlers,           \* onended/onerror of playAudioResponse are attached to the element
  errorQueued,        \* an error event is queued at the element
  messages,           \* useState messages: the conversation log
  turns,              \* startRecording calls so far (bounds the model)
  turnLimit,          \* how many startRecording calls the behaviour is followed for
  playbacks,          \* play() calls so far
  completions,        \* runs of the completion path since the last play()
  audioPlayerRef,     \* audioPlayerRef.current is the audio element (not null)
  audioController,    \* window._audioController holds a hook (not null)
  isTTSStoppedRef,    \* isTTSStoppedRef.current
  teardown,           \* the statements the last hardStopAudio call reached
  hardStops,          \* hardStopAudio calls so far
  vadEvent,           \* what the last step's frame callback decided
  lastRms,            \* the RMS of the frame of the last step (0: the step was no frame)
  staleFired,         \* the last step was a ceiling timer that found its recorder stopped
  stream,             \* the frames a single source will deliver (the detector alone)
  idx,                \* how many of them it has delivered
  emitted,            \* the positions in stream at which recording was triggered
  decodeInput,        \* the string given to the hex decoding (the decoding alone)
  binary,             \* the bytes it produced
  decodeResult,       \* none (not decoded yet), bytes, threw
  sourceRefs,         \* processorRef, sourceRef, audioContextRef, streamRef: set or null (the close alone)
  released,           \* the releases performed on them so far, in order
  closes,             \* stopListening calls so far
  opens,              \* opens so far
  frame,              \* inputData: the samples of one frame, in hundredths (the bands alone)
  bands               \* the eight bands computed from it: range and value

prog == <<started, status, isRecordingRef, speechBufferCount, vadRef, vadLeaked,
          openPending, overtaken, recPending, micStreams, recorders, staleTimers, stopQueued, inflight, gathered, audioChunksRef,
          utterance, micro, player,
          handlers, errorQueued, messages, turns, playbacks, completions, audioPlayerRef,
          audioController, isTTSStoppedRef, teardown, hardStops, vadEvent, lastRms, staleFired>>
det == <<stream, idx, emitted>>
capt == <<sourceRefs, released, closes, opens>>
vis == <<frame, bands>>
aux == <<decodeInput, binary, decodeResult, capt, vis>>
vars == <<prog, det, turnLimit, aux>>

(***************************************************************************)
(* Program constants (hundredths for the thresholds) and model bounds.     *)
(***************************************************************************)
SPEECH_THRESHOLD == 2
MIN_SPEECH_BUFFERS == 6
INTERRUPT_THRESHOLD == 3

MaxCount == MIN_SPEECH_BUFFERS + 1
MaxPending == 2
MaxLeaked == 1
MaxTurns == 2
FairTurns == 2
MaxFrames == 7
MaxCalls == 2
MaxHexLen == 4
MaxCloses == 3
ShortLen == 8
LongLen == 17
MaxOpens == 4

\* One RMS value per case of the two comparisons: below the speech threshold,
\* at it, above it up to the interrupt threshold, above the interrupt threshold.
RmsValues ==
  {SPEECH_THRESHOLD - 1, SPEECH_THRESHOLD, INTERRUPT_THRESHOLD, INTERRUPT_THRESHOLD + 1}
\* Just below, at and just above the speech threshold.
StreamRms == {SPEECH_THRESHOLD - 1, SPEECH_THRESHOLD, SPEECH_THRESHOLD + 1}

\* The status every callback reads: each callback is created by functions of
\* the first render (the mount effect calls that render's startListening, and
\* every later call is made from a callback it created), so `status` in them
\* is the useState initial value.
closureStatus == "waiting"

UserMsg(t) == [role |-> "user", content |-> IF t = "" THEN "Transcription not available" ELSE t]
AssistantMsg(r) == [role |-> "assistant", content |-> r]
FallbackMsg == [role |-> "assistant", content |-> "Sorry, there was an error processing your message."]

\* The component's state as one record.
Cur ==
  [started |-> started, status |-> status, isRecordingRef |-> isRecordingRef,
   speechBufferCount |-> speechBufferCount, vadRef |-> vadRef, vadLeaked |-> vadLeaked,
   openPending |-> openPending, recPending |-> recPending,
   overtaken |-> overtaken, micStreams |-> micStreams, recorders |-> recorders,
   staleTimers |-> staleTimers,
   stopQueued |-> stopQueued, inflight |-> inflight, gathered |-> gathered,
   audioChunksRef |-> audioChunksRef,
   utterance |-> utterance, micro |-> micro, player |-> player,
   handlers |-> handlers, errorQueued |-> errorQueued, messages |-> messages,
   turns |-> turns, playbacks |-> playbacks, completions |-> completions,
   audioPlayerRef |-> audioPlayerRef,
   audioController |-> audioController, isTTSStoppedRef |-> isTTSStoppedRef,
   teardown |-> teardown, hardStops |-> hardStops, vadEvent |-> vadEvent,
   lastRms |-> lastRms, staleFired |-> staleFired]

\* The bound on startRecording calls never cuts off a call that makes a
\* second session next to one that exists.
Bounded(s) ==
  /\ s.speechBufferCount <= MaxCount
  /\ s.openPending <= MaxPending
  /\ s.vadLeaked <= MaxLeaked
  /\ \/ s.turns <= turnLimit
     \/ s.turns = turnLimit + 1 /\ s.recPending + s.recorders >= 2

\* The step to state s.
Apply(s) ==
  /\ Bounded(s)
  /\ started' = s.started
  /\ status' = s.status
  /\ isRecordingRef' = s.isRecordingRef
  /\ speechBufferCount' = s.speechBufferCount
  /\ vadRef' = s.vadRef
  /\ vadLeaked' = s.vadLeaked
  /\ openPending' = s.openPending
  /\ recPending' = s.recPending
  /\ overtaken' = s.overtaken
  /\ micStreams' = s.micStreams
  /\ recorders' = s.recorders
  /\ staleTimers' = s.staleTimers
  /\ stopQueued' = s.stopQueued
  /\ inflight' = s.inflight
  /\ gathered' = s.gathered
  /\ audioChunksRef' = s.audioChunksRef
  /\ utterance' = s.utterance
  /\ micro' = s.micro
  /\ player' = s.player
  /\ handlers' = s.handlers
  /\ errorQueued' = s.errorQueued
  /\ messages' = s.messages
  /\ turns' = s.turns
  /\ playbacks' = s.playbacks
  /\ completions' = s.completions
  /\ audioPlayerRef' = s.audioPlayerRef
  /\ audioController' = s.audioController
  /\ isTTSStoppedRef' = s.isTTSStoppedRef
  /\ teardown' = s.teardown
  /\ hardStops' = s.hardStops
  /\ vadEvent' = s.vadEvent
  /\ lastRms' = s.lastRms
  /\ staleFired' = s.staleFired

\* A step of the component: the single-source stream is not involved.
Do(s) == Apply(s) /\ UNCHANGED <<det, turnLimit, aux>>

\* A browser task runs only when no promise reaction is waiting.
Task == micro = <<>>

\* Every step but a frame callback: the detector decided nothing in it.
Quiet(s) == [s EXCEPT !.vadEvent = "None", !.lastRms = 0, !.staleFired = FALSE]

(***************************************************************************)
(* Helpers of the component                                                *)
(***************************************************************************)
setStatus(s, v) == [s EXCEPT !.status = v]

\* stopListening: releases what the refs hold, and nothing else.
stopListening(s) == [s EXCEPT !.vadRef = FALSE, !.overtaken = s.openPending]

\* startListening up to its await: the status and the getUserMedia request.
startListening(s) == [setStatus(s, "waiting") EXCEPT !.openPending = @ + 1]

\* A faulty variant: the playback is left as it is.
forceStopPlayer_none(s) == s

\* pause(); currentTime = 0; src = ''; load(): a pending play() promise is
\* rejected (its catch runs as the next promise reaction), and loading the
\* empty src fires an error event at the element.
forceStopPlayer(s) ==
  IF ~s.audioPlayerRef
  THEN s
  ELSE [s EXCEPT !.player = "stopped",
                 !.micro = IF s.player = "starting" THEN Append(@, "playCatch") ELSE @,
                 !.errorQueued = s.handlers]

\* startRecording up to its getUserMedia request.
\* A faulty variant: the buffer of chunks is not emptied.
startRecording_keepChunks(s) ==
  LET a == forceStopPlayer(s)
      b == stopListening(a)
      c == setStatus(b, "listening")
  IN  [c EXCEPT !.isRecordingRef = TRUE, !.recPending = @ + 1, !.turns = @ + 1]

startRecording(s) ==
  LET a == forceStopPlayer(s)
      b == stopListening(a)
      c == setStatus(b, "listening")
  IN  [c EXCEPT !.isRecordingRef = TRUE, !.audioChunksRef = <<>>, !.recPending = @ + 1,
                !.turns = @ + 1]

\* A faulty variant: the completion sets the status and does not restart listening.
playbackCompletion_noRestart(s) ==
  [setStatus(s, "waiting") EXCEPT !.completions = @ + 1]

\* What onended, onerror and the catch of play() do.
playbackCompletion(s) ==
  [startListening(setStatus(s, "waiting")) EXCEPT !.completions = @ + 1]

(***************************************************************************)
(* The audio of a response: a string of characters, decoded by             *)
(* new Uint8Array(audioHex.match(/.{1,2}/g)!.map(b => parseInt(b, 16))).   *)
(***************************************************************************)
HexDigit ==
  [c \in {"0", "1", "2", "3", "4", "5", "6", "7", "8", "9"} |->
     CASE c = "0" -> 0 [] c = "1" -> 1 [] c = "2" -> 2 [] c = "3" -> 3 [] c = "4" -> 4
       [] c = "5" -> 5 [] c = "6" -> 6 [] c = "7" -> 7 [] c = "8" -> 8 [] OTHER -> 9]
  @@ [c \in {"a", "b", "c", "d", "e", "f"} |->
     CASE c = "a" -> 10 [] c = "b" -> 11 [] c = "c" -> 12 [] c = "d" -> 13
       [] c = "e" -> 14 [] OTHER -> 15]

NaN == -1

\* audioHex.match(/.{1,2}/g): pairs from the left, the last one of one
\* character when the length is odd; null (here the empty sequence) when
\* nothing matches.
RECURSIVE hexPairs(_)
hexPairs(h) ==
  IF Len(h) = 0 THEN <<>>
  ELSE IF Len(h) = 1 THEN <<h>>
  ELSE <<SubSeq(h, 1, 2)>> \o hexPairs(SubSeq(h, 3, Len(h)))

\* parseInt(b, 16): the value of the longest prefix of hex digits, NaN when
\* the first character is none.
parseInt16(b) ==
  IF b[1] \notin DOMAIN HexDigit THEN NaN
  ELSE IF Len(b) = 1 \/ b[2] \notin DOMAIN HexDigit THEN HexDigit[b[1]]
  ELSE 16 * HexDigit[b[1]] + HexDigit[b[2]]

\* new Uint8Array([...]): NaN is stored as 0.
toUint8(n) == IF n = NaN THEN 0 ELSE n % 256

hexDecode(h) == [i \in 1..Len(hexPairs(h)) |-> toUint8(parseInt16(hexPairs(h)[i]))]

\* playAudioResponse.  The decoding throws only when match() is null (the !
\* is erased by the compiler); the catch of lines 404-408 then resumes
\* listening.  Any other string is decoded to bytes and played.
playAudioResponse(s, audioHex) ==
  LET a == [setStatus(s, "speaking") EXCEPT !.isTTSStoppedRef = FALSE]
  IN  IF hexPairs(audioHex) = <<>> \/ ~a.audioPlayerRef
      THEN startListening(setStatus(a, "waiting"))
      ELSE [a EXCEPT !.player = "starting",
                     !.micro = IF s.player = "starting" THEN Append(@, "playCatch") ELSE @,
                     !.handlers = TRUE,
                     !.errorQueued = FALSE,
                     !.playbacks = @ + 1,
                     !.completions = 0]

(***************************************************************************)
(* hardStopAudio.  Its statements are in two try blocks, so a statement    *)
(* that throws skips the rest of its block; `fail` names the statement     *)
(* that throws in this call ("none": none does).                           *)
(***************************************************************************)
FailSteps == {"none", "intercept", "pause", "currentTime", "src", "load"}

\* if (window._audioController) { try { intercept(); window._audioController = null } catch }
hookBlock(s, fail) ==
  IF ~s.audioController
  THEN s
  ELSE IF fail = "intercept"
       THEN [s EXCEPT !.teardown = @ \cup {"intercept"}]
       ELSE [s EXCEPT !.teardown = @ \cup {"intercept", "clearHook"},
                      !.audioController = FALSE]

\* if (audioPlayerRef.current) { try { onended = onerror = onpause = null;
\* pause(); currentTime = 0; src = ''; load() } catch }: a is the state when
\* pause() throws, b when the assignment of currentTime does, c when that of
\* src does, d when the source has been emptied.
elementBlock(s, fail) ==
  IF ~s.audioPlayerRef
  THEN s
  ELSE LET a == [s EXCEPT !.handlers = FALSE, !.teardown = @ \cup {"pause"}]
           b == [a EXCEPT !.player = IF @ \in {"starting", "playing"} THEN "paused" ELSE @,
                          !.micro = IF s.player = "starting" THEN Append(@, "playCatch") ELSE @,
                          !.teardown = @ \cup {"currentTime"}]
           c == [b EXCEPT !.teardown = @ \cup {"src"}]
           d == [c EXCEPT !.player = "stopped",
                          !.errorQueued = FALSE,
                          !.teardown = @ \cup {"load"}]
       IN  CASE fail = "pause" -> a
             [] fail = "currentTime" -> b
             [] fail = "src" -> c
             [] OTHER -> d

\* A faulty variant: the element is paused and keeps its source.
hardStopAudio_pauseOnly(s, fail) ==
  [elementBlock(hookBlock([s EXCEPT !.teardown = {}], fail), "currentTime")
     EXCEPT !.isTTSStoppedRef = TRUE, !.hardStops = @ + 1]

hardStopAudio(s, fail) ==
  [elementBlock(hookBlock([s EXCEPT !.teardown = {}], fail), fail)
     EXCEPT !.isTTSStoppedRef = TRUE, !.hardStops = @ + 1]

(***************************************************************************)
(* The frame callback (processor.onaudioprocess)                           *)
(***************************************************************************)
\* if (status === 'speaking' && rms > INTERRUPT_THRESHOLD) { ... return; }
interruptBranch(s) ==
  LET a == forceStopPlayer(s)
      b == setStatus(a, "listening")
      c == stopListening(b)
      d == startRecording(c)
  IN  [d EXCEPT !.vadEvent = "Interrupt"]

\* A faulty variant: one frame late.
speechTrigger_offByOne(s, n) == n > MIN_SPEECH_BUFFERS /\ ~s.isRecordingRef

\* A faulty variant: the flag is not consulted.
speechTrigger_noGuard(s, n) == n >= MIN_SPEECH_BUFFERS

\* speechBufferCount >= MIN_SPEECH_BUFFERS && !isRecordingRef.current
speechTrigger(s, n) == n >= MIN_SPEECH_BUFFERS /\ ~s.isRecordingRef

\* if (rms > SPEECH_THRESHOLD) { speechBufferCount++; ... }
speechBranch(s) ==
  LET n == s.speechBufferCount + 1
  IN  IF speechTrigger(s, n)
      THEN LET a == [s EXCEPT !.isRecordingRef = TRUE]
               b == stopListening(a)
               c == startRecording(b)
           IN  [c EXCEPT !.speechBufferCount = 0, !.vadEvent = "SpeechStart"]
      ELSE IF closureStatus # "listening" /\ closureStatus # "processing"
           THEN [setStatus(s, "listening") EXCEPT !.speechBufferCount = n, !.vadEvent = "None"]
           ELSE [s EXCEPT !.speechBufferCount = n, !.vadEvent = "None"]

\* A faulty variant: the counter is not reset.
silenceBranch_keep(s) == [s EXCEPT !.vadEvent = "None"]

\* else { speechBufferCount = 0; }
silenceBranch(s) == [s EXCEPT !.speechBufferCount = 0, !.vadEvent = "None"]

onaudioprocess(s, rms) ==
  LET f == [s EXCEPT !.lastRms = rms]
  IN  IF closureStatus = "speaking" /\ rms > INTERRUPT_THRESHOLD
      THEN interruptBranch(f)
      ELSE IF rms > SPEECH_THRESHOLD
           THEN speechBranch(f)
           ELSE silenceBranch(f)

(***************************************************************************)
(* Actions                                                                 *)
(***************************************************************************)
\* The decoding has been given nothing.
Undecoded ==
  /\ decodeInput = <<>>
  /\ binary = <<>>
  /\ decodeResult = "none"

\* The component as constructed: nothing has run yet.
Constructed ==
  /\ started = FALSE
  /\ status = "waiting"
  /\ isRecordingRef = FALSE
  /\ speechBufferCount = 0
  /\ vadRef = FALSE
  /\ vadLeaked = 0
  /\ openPending = 0
  /\ recPending = 0
  /\ overtaken = 0
  /\ micStreams = 0
  /\ recorders = 0
  /\ staleTimers = 0
  /\ stopQueued = 0
  /\ inflight = 0
  /\ gathered = 0
  /\ audioChunksRef = <<>>
  /\ utterance = 0
  /\ micro = <<>>
  /\ player = "idle"
  /\ handlers = FALSE
  /\ errorQueued = FALSE
  /\ messages = <<>>
  /\ turns = 0
  /\ playbacks = 0
  /\ completions = 0
  /\ audioPlayerRef = FALSE
  /\ audioController = FALSE
  /\ isTTSStoppedRef = FALSE
  /\ teardown = {}
  /\ hardStops = 0
  /\ vadEvent = "None"
  /\ lastRms = 0
  /\ staleFired = FALSE
  /\ stream = <<>>
  /\ idx = 0
  /\ emitted = {}

\* No ref of the source is set.
NoRefs == [processorRef |-> FALSE, sourceRef |-> FALSE, audioContextRef |-> FALSE, streamRef |-> FALSE]

Unopened ==
  /\ sourceRefs = NoRefs
  /\ released = <<>>
  /\ closes = 0
  /\ opens = 0

Unframed ==
  /\ frame = <<>>
  /\ bands = <<>>

Init == Constructed /\ Undecoded /\ Unopened /\ Unframed /\ turnLimit = MaxTurns

\* The mount effect: setStatus('waiting'); startListening().  The ref of the
\* audio element is attached when the component is committed, before the effect.
Mount ==
  /\ ~started
  /\ Do(Quiet(startListening(setStatus([Cur EXCEPT !.started = TRUE, !.audioPlayerRef = TRUE],
                                       "waiting"))))

\* getUserMedia of startListening resolves: the refs are overwritten, the
\* counter is reset and the frame callback is installed.
OpenResolved ==
  /\ Task
  /\ openPending > 0
  /\ Do(Quiet([Cur EXCEPT !.openPending = @ - 1,
                             !.overtaken = IF @ > 0 THEN @ - 1 ELSE 0,
                             !.vadLeaked = IF vadRef THEN @ + 1 ELSE @,
                             !.vadRef = TRUE,
                             !.speechBufferCount = 0]))

\* getUserMedia of startListening rejects: the catch logs.
OpenDenied ==
  /\ Task
  /\ openPending > 0
  /\ Do(Quiet([Cur EXCEPT !.openPending = @ - 1, !.overtaken = IF @ > 0 THEN @ - 1 ELSE 0]))

\* One frame from any open source.
AudioFrame(rms) ==
  /\ Task
  /\ vadRef \/ vadLeaked > 0
  /\ Do(onaudioprocess(Cur, rms))

\* getUserMedia of startRecording resolves: a MediaRecorder is created and
\* started, and its ceiling timer is armed.
RecResolved ==
  /\ Task
  /\ recPending > 0
  /\ Do(Quiet([Cur EXCEPT !.recPending = @ - 1, !.micStreams = @ + 1, !.recorders = @ + 1]))

\* getUserMedia of startRecording rejects: the promise has no catch.
RecDenied ==
  /\ Task
  /\ recPending > 0
  /\ Do(Quiet([Cur EXCEPT !.recPending = @ - 1]))

\* A faulty variant: the timer callback leaves the recorder recording.
TimerFires_idle ==
  /\ Task
  /\ recorders > 0
  /\ Do(Quiet(Cur))

\* The ceiling timer of a recorder that is still recording: it stops it, and
\* the recorder queues the task of its dataavailable and stop events.
TimerFires ==
  /\ Task
  /\ recorders > 0
  /\ Do(Quiet([Cur EXCEPT !.recorders = @ - 1, !.stopQueued = @ + 1, !.gathered = 1]))

\* The tracks of a recorder's stream end (the device is removed, the
\* permission is withdrawn): the recorder stops by itself and queues the same
\* task, with the data gathered so far, which may be none.  Its ceiling
\* timer stays armed.
RecorderEnds(captured) ==
  /\ Task
  /\ recorders > 0
  /\ Do(Quiet([Cur EXCEPT !.micStreams = @ - 1, !.recorders = @ - 1, !.stopQueued = @ + 1,
                           !.staleTimers = @ + 1,
                           !.gathered = IF captured THEN 1 ELSE 0]))

\* A faulty variant: the timer callback stops its recorder without looking
\* at its state, and the stop handler is queued once more.
StaleTimerFires_again ==
  /\ Task
  /\ staleTimers > 0
  /\ Do(Quiet([Cur EXCEPT !.staleTimers = @ - 1, !.stopQueued = @ + 1]))

\* A faulty variant: the timer callback stops the recorder of
\* mediaRecorderRef.current, whichever session armed the timer.
StaleTimerFires_current ==
  /\ Task
  /\ staleTimers > 0
  /\ Do(Quiet(IF recorders > 0
                THEN [Cur EXCEPT !.staleTimers = @ - 1, !.recorders = @ - 1,
                                 !.stopQueued = @ + 1, !.gathered = 1]
                ELSE [Cur EXCEPT !.staleTimers = @ - 1, !.staleFired = TRUE]))

\* The ceiling timer of a recorder that has stopped fires: the test of
\* mediaRecorder.state fails, and mediaRecorder is the recorder of the call
\* that armed the timer.
StaleTimerFires ==
  /\ Task
  /\ staleTimers > 0
  /\ Do([Quiet([Cur EXCEPT !.staleTimers = @ - 1]) EXCEPT !.staleFired = TRUE])

RECURSIVE Sum(_)
Sum(q) == IF q = <<>> THEN 0 ELSE Head(q) + Sum(Tail(q))

\* The task of a stopped recorder: ondataavailable pushes the recorded data
\* (start() was given no timeslice, so this is the recording's only chunk),
\* then onstop runs up to the await of fetch in processAudio, with the Blob
\* of the chunks.
OnStop ==
  /\ Task
  /\ stopQueued > 0
  /\ LET a == [Cur EXCEPT !.audioChunksRef = Append(@, gathered), !.gathered = 0]
     IN  Do(Quiet([setStatus(a, "processing") EXCEPT !.stopQueued = @ - 1,
                                                      !.utterance = Sum(a.audioChunksRef),
                                                      !.inflight = @ + 1]))

\* What the service answers: a reply with audio (the hex of "RI"), a reply
\* whose audio has an odd number of hex characters, a reply without audio, and
\* a failure (network error or non-ok status).
Outcomes == {"audio", "oddaudio", "noaudio", "fail"}

\* A faulty variant: every response is taken to carry audio.
AudioOf_always(outcome) == <<"5", "2", "4", "9">>

\* data.audio
AudioOf(outcome) ==
  CASE outcome = "audio" -> <<"5", "2", "4", "9">>
    [] outcome = "oddaudio" -> <<"5", "2", "4">>
    [] OTHER -> <<>>

\* A faulty variant: the failure is logged only.
processAudioCatch_silent(s) == startListening(s)

\* A faulty variant: the fallback replaces the log.
processAudioCatch_replace(s) == startListening([s EXCEPT !.messages = <<FallbackMsg>>])

\* catch (error) { setMessages(prev => [...prev, fallback]); startListening(); }
processAudioCatch(s) == startListening([s EXCEPT !.messages = Append(@, FallbackMsg)])

\* processAudio from the response on; its caller's continuation is the next
\* promise reaction.
processAudioRest(s, outcome) ==
  LET a == IF outcome = "fail"
           THEN processAudioCatch(s)
           ELSE LET m == [s EXCEPT !.messages = @ \o <<UserMsg("hello"), AssistantMsg("hi there")>>]
                IN  IF AudioOf(outcome) # <<>>
                    THEN playAudioResponse(m, AudioOf(outcome))
                    ELSE startListening(m)
  IN  [a EXCEPT !.micro = Append(@, "onstopCont")]

FetchDone(outcome) ==
  /\ Task
  /\ inflight > 0
  /\ Do(Quiet(processAudioRest([Cur EXCEPT !.inflight = @ - 1], outcome)))

\* mediaRecorder.onstop after await processAudio.
onstopRest(s) ==
  startListening(setStatus([s EXCEPT !.isRecordingRef = FALSE], "waiting"))

OnStopCont ==
  /\ micro # <<>>
  /\ Head(micro) = "onstopCont"
  /\ Do(Quiet(onstopRest([Cur EXCEPT !.micro = Tail(@)])))

\* The catch of a rejected play().
PlayCatch ==
  /\ micro # <<>>
  /\ Head(micro) = "playCatch"
  /\ Do(Quiet(playbackCompletion([Cur EXCEPT !.micro = Tail(@)])))

\* play() resolves: playback has started.
PlayStarts ==
  /\ Task
  /\ player = "starting"
  /\ Do(Quiet([Cur EXCEPT !.player = "playing"]))

\* play() is rejected: not allowed to play (no error event), or the media
\* cannot be played (the error event is fired, then the promise is rejected).
PlayRejected(withError) ==
  /\ Task
  /\ player = "starting"
  /\ LET a == [Cur EXCEPT !.player = "failed", !.micro = Append(@, "playCatch")]
     IN  Do(Quiet(IF withError /\ handlers THEN playbackCompletion(a) ELSE a))

\* The audio reaches its end: onended.
NaturalEnd ==
  /\ Task
  /\ player = "playing"
  /\ Do(Quiet(playbackCompletion([Cur EXCEPT !.player = "ended"])))

\* A faulty variant: the failure of the media only marks the element.
PlaybackError_stuck ==
  /\ Task
  /\ player = "playing"
  /\ Do(Quiet([Cur EXCEPT !.player = "failed"]))

\* The playing media fails: onerror.
PlaybackError ==
  /\ Task
  /\ player = "playing"
  /\ Do(Quiet(playbackCompletion([Cur EXCEPT !.player = "failed"])))

\* The error event of an emptied src reaches onerror.
DeliverError ==
  /\ Task
  /\ errorQueued
  /\ handlers
  /\ Do(Quiet(playbackCompletion([Cur EXCEPT !.errorQueued = FALSE])))

Next ==
  \/ Mount
  \/ OpenResolved
  \/ OpenDenied
  \/ \E rms \in RmsValues : AudioFrame(rms)
  \/ RecResolved
  \/ RecDenied
  \/ TimerFires
  \/ OnStop
  \/ \E outcome \in Outcomes : FetchDone(outcome)
  \/ OnStopCont
  \/ PlayCatch
  \/ PlayStarts
  \/ \E withError \in BOOLEAN : PlayRejected(withError)
  \/ NaturalEnd
  \/ PlaybackError
  \/ DeliverError

Spec == Init /\ [][Next]_vars

\* The first FairTurns recordings, where a timer that is due fires and a
\* queued recorder task runs.
FairInit == Constructed /\ Undecoded /\ Unopened /\ Unframed /\ turnLimit = FairTurns

FairSpec == FairInit /\ [][Next]_vars /\ WF_vars(TimerFires) /\ WF_vars(OnStop)

(***************************************************************************)
(* The detector alone: one freshly opened source (the state after the      *)
(* mount effect and the resolution of its getUserMedia), no recording      *)
(* active, and a stream of frames delivered to the frame callback.         *)
(***************************************************************************)
Streams == [1..MaxFrames -> StreamRms]

DetInit ==
  /\ started = TRUE
  /\ status = "waiting"
  /\ isRecordingRef = FALSE
  /\ speechBufferCount = 0
  /\ vadRef = TRUE
  /\ vadLeaked = 0
  /\ openPending = 0
  /\ recPending = 0
  /\ overtaken = 0
  /\ micStreams = 0
  /\ recorders = 0
  /\ staleTimers = 0
  /\ stopQueued = 0
  /\ inflight = 0
  /\ gathered = 0
  /\ audioChunksRef = <<>>
  /\ utterance = 0
  /\ micro = <<>>
  /\ player = "idle"
  /\ handlers = FALSE
  /\ errorQueued = FALSE
  /\ messages = <<>>
  /\ turns = 0
  /\ turnLimit = MaxTurns
  /\ playbacks = 0
  /\ completions = 0
  /\ audioPlayerRef = TRUE
  /\ audioController = FALSE
  /\ isTTSStoppedRef = FALSE
  /\ teardown = {}
  /\ hardStops = 0
  /\ vadEvent = "None"
  /\ lastRms = 0
  /\ staleFired = FALSE
  /\ stream \in Streams
  /\ idx = 0
  /\ emitted = {}
  /\ Undecoded
  /\ Unopened
  /\ Unframed

\* The source delivers its next frame.
Observe ==
  /\ Task
  /\ vadRef
  /\ idx < Len(stream)
  /\ Apply(onaudioprocess(Cur, stream[idx + 1]))
  /\ idx' = idx + 1
  /\ emitted' = IF vadEvent' = "SpeechStart" THEN emitted \cup {idx + 1} ELSE emitted
  /\ stream' = stream
  /\ turnLimit' = turnLimit
  /\ UNCHANGED aux

DetNext == Observe

DetectorSpec == DetInit /\ [][DetNext]_vars

(***************************************************************************)
(* hardStopAudio alone: called up to MaxCalls times in a row on the audio  *)
(* element in each of the states the component leaves it in, with and      *)
(* without a registered hook, and with the ref attached or already         *)
(* detached.                                                               *)
(***************************************************************************)
\* player, handlers, errorQueued as the component leaves them.
ElementStates ==
  {<<"idle", FALSE, FALSE>>, <<"stopped", FALSE, FALSE>>, <<"starting", TRUE, FALSE>>,
   <<"playing", TRUE, FALSE>>, <<"ended", TRUE, FALSE>>, <<"failed", TRUE, FALSE>>,
   <<"stopped", TRUE, FALSE>>, <<"stopped", TRUE, TRUE>>}

StopInit ==
  /\ started = TRUE
  /\ status \in {"waiting", "listening", "processing", "speaking"}
  /\ isRecordingRef = FALSE
  /\ speechBufferCount = 0
  /\ vadRef = FALSE
  /\ vadLeaked = 0
  /\ openPending = 0
  /\ recPending = 0
  /\ overtaken = 0
  /\ micStreams = 0
  /\ recorders = 0
  /\ staleTimers = 0
  /\ stopQueued = 0
  /\ inflight = 0
  /\ gathered = 0
  /\ audioChunksRef = <<>>
  /\ utterance = 0
  /\ micro = <<>>
  /\ \E e \in ElementStates : player = e[1] /\ handlers = e[2] /\ errorQueued = e[3]
  /\ messages = <<>>
  /\ turns = 0
  /\ turnLimit = MaxTurns
  /\ playbacks = 0
  /\ completions = 0
  /\ audioPlayerRef \in BOOLEAN
  /\ audioController \in BOOLEAN
  /\ isTTSStoppedRef = FALSE
  /\ teardown = {}
  /\ hardStops = 0
  /\ vadEvent = "None"
  /\ lastRms = 0
  /\ staleFired = FALSE
  /\ stream = <<>>
  /\ idx = 0
  /\ emitted = {}
  /\ Undecoded
  /\ Unopened
  /\ Unframed

HardStop(fail) ==
  /\ hardStops < MaxCalls
  /\ Do(Quiet(hardStopAudio(Cur, fail)))

StopNext == \E fail \in FailSteps : HardStop(fail)

HardStopSpec == StopInit /\ [][StopNext]_vars

(***************************************************************************)
(* The hex decoding alone: line 373 applied to every string of up to       *)
(* MaxHexLen characters, of two hex digits and one character that is none. *)
(***************************************************************************)
HexChars == {"5", "a", "g"}

HexStrings == UNION {[1..n -> HexChars] : n \in 0..MaxHexLen}

DecodeInit ==
  /\ Constructed
  /\ turnLimit = MaxTurns
  /\ Unopened
  /\ Unframed
  /\ decodeInput \in HexStrings
  /\ binary = <<>>
  /\ decodeResult = "none"

\* new Uint8Array(audioHex.match(/.{1,2}/g)!.map(byte => parseInt(byte, 16))):
\* match() is null for the empty string, and null.map throws a TypeError.
Decode ==
  /\ decodeResult = "none"
  /\ IF hexPairs(decodeInput) = <<>>
     THEN binary' = <<>> /\ decodeResult' = "threw"
     ELSE binary' = hexDecode(decodeInput) /\ decodeResult' = "bytes"
  /\ UNCHANGED <<prog, det, turnLimit, decodeInput, capt, vis>>

DecodeNext == Decode

DecodeSpec == DecodeInit /\ [][DecodeNext]_vars

(***************************************************************************)
(* The specification's vocabulary, read off the component's state          *)
(***************************************************************************)
\* ConversationState: the status the component keeps; 'listening' is the
\* status startRecording sets, 'waiting' the one startListening sets.
ConversationState ==
  CASE ~started -> "Idle"
    [] status = "waiting" -> "Listening"
    [] status = "listening" -> "Recording"
    [] status = "processing" -> "Processing"
    [] OTHER -> "Speaking"

\* The audio element is playing a reply (from play() on).
Playing == player \in {"starting", "playing"}

\* Recording sessions that are capturing.
ActiveSessions == recorders

\* Open AudioFrameSources, and opens under way.
OpenSources == (IF vadRef THEN 1 ELSE 0) + vadLeaked

\* A round trip is unresolved: from the recorder's stop to the end of onstop.
RoundTrips ==
  stopQueued + inflight + Cardinality({i \in 1..Len(micro) : micro[i] = "onstopCont"})

(***************************************************************************)
(* Claims                                                                  *)
(***************************************************************************)

\* C1: in every reachable state, Recording implies exactly one active
\* RecordingSession and no playback Playing, and Speaking implies exactly one
\* playback Playing and no active RecordingSession.
C1_StateResources ==
  /\ ConversationState = "Recording" => ActiveSessions = 1 /\ ~Playing
  /\ ConversationState = "Speaking" => Playing /\ ActiveSessions = 0

\* C2: once a successful response with audio has been handled (the handler
\* and its promise reactions are done), the controller is in Speaking for as
\* long as the playback it started is playing, and the log ends with the
\* assistant's reply.
C2_SpeakingWhilePlaying ==
  (Task /\ Playing) =>
    /\ ConversationState = "Speaking"
    /\ messages # <<>>
    /\ messages[Len(messages)] = AssistantMsg("hi there")

\* C3: when the playback completes naturally (onended), the controller is in
\* Listening afterwards and the AudioFrameSource is reopened (one more open
\* is under way).
C3_CompletionToListening ==
  [][NaturalEnd => (ConversationState' = "Listening" /\ openPending' = openPending + 1)]_vars

C3_Witness ==
  /\ player = "ended"
  /\ ConversationState = "Listening"
  /\ openPending > 0

\* C4: while the reply is playing (Speaking), a single frame whose RMS exceeds
\* interruptThreshold is an Interrupt on that same frame.
C4_InterruptOnSingleFrame ==
  [][\A rms \in RmsValues :
       (AudioFrame(rms) /\ Playing /\ rms > INTERRUPT_THRESHOLD) => vadEvent' = "Interrupt"]_vars

\* C5: a frame above interruptThreshold while the reply is playing stops the
\* playback and leaves the controller in Recording with exactly one
\* RecordingSession (starting or capturing) and no playback Playing.
C5_InterruptToRecording ==
  [][\A rms \in RmsValues :
       (AudioFrame(rms) /\ Playing /\ rms > INTERRUPT_THRESHOLD) =>
         /\ ~Playing'
         /\ ConversationState' = "Recording"
         /\ recPending' + recorders' = 1]_vars

\* C6: for a single source with no recording active, recording is triggered
\* exactly once, on the frame that completes the first run of
\* MIN_SPEECH_BUFFERS consecutive frames above the speech threshold, and on no
\* earlier frame.
SixRunEndsAt(i) ==
  /\ i >= MIN_SPEECH_BUFFERS
  /\ \A j \in (i - MIN_SPEECH_BUFFERS + 1)..i : stream[j] > SPEECH_THRESHOLD

C6_SpeechStartOnSixthFrame ==
  emitted = {i \in 1..idx : SixRunEndsAt(i) /\ \A k \in 1..(i - 1) : ~SixRunEndsAt(k)}

C6_Witness ==
  /\ idx = MIN_SPEECH_BUFFERS
  /\ emitted = {MIN_SPEECH_BUFFERS}
  /\ vadEvent = "SpeechStart"

\* C7: a frame whose RMS is strictly below the speech threshold leaves the
\* counter at 0 and is neither a SpeechStart nor an Interrupt, whatever the
\* state: no recording starts and the playback is not touched.
C7_BelowThresholdNoEvent ==
  [][\A rms \in RmsValues :
       (rms < SPEECH_THRESHOLD /\ lastRms' = rms /\ AudioFrame(rms)) =>
         /\ speechBufferCount' = 0
         /\ vadEvent' = "None"
         /\ recPending' = recPending
         /\ player' = player
         /\ isRecordingRef' = isRecordingRef]_vars

C7_Witness ==
  /\ lastRms # 0
  /\ lastRms < SPEECH_THRESHOLD
  /\ status = "listening"
  /\ Playing
  /\ speechBufferCount = 0

\* C8: the AudioFrameSource is never open more than once: open sources and
\* opens under way never add up to more than one.
C8_SingleOpen == OpenSources + openPending <= 1

\* C9: no RecordingSession starts or runs while a round trip is unresolved,
\* the flag is set as long as a session or a round trip exists, and it is
\* cleared only by a step that ends in Listening with no round trip left.
C9_Exclusive ==
  /\ [](recPending + recorders + RoundTrips <= 1)
  /\ [](recPending + recorders + RoundTrips > 0 => isRecordingRef)
  /\ [][(isRecordingRef /\ ~isRecordingRef') =>
          (ConversationState' = "Listening" /\ RoundTrips' = 0)]_vars
  /\ [][\A rms \in RmsValues :
          (RoundTrips > 0 /\ lastRms' = rms /\ AudioFrame(rms)) =>
            (vadEvent' = "None" /\ recPending' = recPending)]_vars

\* a frame that meets the SpeechStart condition while the fetch is in flight
C9_Witness ==
  /\ inflight > 0
  /\ lastRms > SPEECH_THRESHOLD
  /\ speechBufferCount >= MIN_SPEECH_BUFFERS
  /\ vadEvent = "None"

\* C10: once the playback has been stopped, none of its completion callbacks
\* (ended, error, rejected play) changes the status or reopens the
\* AudioFrameSource.
C10_NoCompletionAfterStop ==
  [][(player = "stopped" /\ (DeliverError \/ PlayCatch \/ NaturalEnd \/ PlaybackError)) =>
       (status' = status /\ openPending' = openPending)]_vars

\* C11: for each playback started, the completion path (onended, onerror or
\* the catch of play()) runs at most once.
C11_CompletionOnce == completions <= 1

\* the element states the component reaches are those hardStopAudio is tried on
ElementStatesCover == <<player, handlers, errorQueued>> \in ElementStates

\* The component's state but for the record of the hardStopAudio calls.
Program(s) == [s EXCEPT !.teardown = {}, !.hardStops = 0]

\* C12: a hardStopAudio call in which no statement throws, in whatever state
\* of the element (nothing playing included), leaves the element it holds
\* stopped with its handlers detached, the hook cleared and the stopped flag
\* set, and a second call right after it changes nothing.
C12_HardStopIdempotent ==
  [][HardStop("none") =>
       /\ audioPlayerRef' => (player' = "stopped" /\ ~handlers')
       /\ ~audioController'
       /\ isTTSStoppedRef'
       /\ Program(hardStopAudio(Cur, "none"))' = Program(Cur)']_vars

\* called twice in a row, the first time on a playback whose play() is pending
C12_Witness ==
  /\ hardStops = 2
  /\ player = "stopped"
  /\ micro = <<"playCatch">>
  /\ teardown = {"pause", "currentTime", "src", "load"}

\* C13: when one statement of hardStopAudio throws, every other teardown step
\* that applies (the hook, pause, the position reset, the emptying of the
\* source) is still attempted.
TeardownSteps ==
  (IF audioController THEN {"intercept"} ELSE {})
    \cup (IF audioPlayerRef THEN {"pause", "currentTime", "src"} ELSE {})

C13_EveryStepAttempted ==
  [][\A fail \in FailSteps :
       HardStop(fail) => (TeardownSteps \ {fail}) \subseteq teardown']_vars

\* C14: the single audio element carries at most one playback: when a reply
\* starts to play, no earlier playback is left on it (none was playing, and
\* neither a rejected play() nor an error event of an earlier playback is
\* still to be delivered), so that no completion is counted for the new one.
C14_PreviousRetired ==
  [][FetchDone("audio") =>
       /\ ~Playing
       /\ Playing'
       /\ completions' = 0
       /\ ~errorQueued'
       /\ \A i \in 1..Len(micro') : micro'[i] # "playCatch"]_vars

\* a second reply starts to play
C14_Witness ==
  /\ playbacks = 2
  /\ player = "starting"
  /\ completions = 0
  /\ micro = <<"onstopCont">>

\* C15: whenever the controller is in Speaking, or the reply is playing, a
\* source is open (its frame callback is running).
C15_SourceOpenWhileSpeaking ==
  (ConversationState = "Speaking" \/ Playing) => OpenSources >= 1

\* C16: no frame is processed while a RecordingSession is being acquired or
\* is capturing: the source was closed before the microphone was requested.
C16_NoFrameWhileRecording ==
  [][\A rms \in RmsValues : AudioFrame(rms) => recPending + recorders = 0]_vars

\* C17: at most one RecordingSession exists at any time, being acquired or
\* capturing: none is started while another is still recording.
C17_SingleSession ==
  /\ recPending + recorders <= 1
  /\ recorders > 0 => isRecordingRef

\* a frame that completes a run of MIN_SPEECH_BUFFERS loud frames while a
\* session is capturing
C17_Witness ==
  /\ recorders = 1
  /\ lastRms > SPEECH_THRESHOLD
  /\ speechBufferCount >= MIN_SPEECH_BUFFERS
  /\ vadEvent = "None"

C19_FailureFallback ==
  /\ [][FetchDone("fail") =>
          /\ messages' = Append(messages, FallbackMsg)
          /\ ConversationState' = "Listening"
          /\ openPending' = openPending + 1
          /\ inflight' = inflight - 1
          /\ stopQueued' = stopQueued /\ recPending' = recPending /\ recorders' = recorders
          /\ ~Playing']_vars
  /\ [][OnStopCont =>
          /\ messages' = messages
          /\ ConversationState' = "Listening"
          /\ openPending' > 0
          /\ inflight' = inflight]_vars

\* the failure has been handled and onstop has finished
C19_Witness ==
  /\ messages # <<>>
  /\ messages[Len(messages)] = FallbackMsg
  /\ ConversationState = "Listening"
  /\ inflight = 0
  /\ micro = <<>>
  /\ ~isRecordingRef
  /\ openPending > 0

\* C20: a successful response whose audio is an odd-length hex string leaves
\* the controller in Listening with the fallback message appended and no
\* playback started.
C20_MalformedAudioFallback ==
  [][FetchDone("oddaudio") =>
       /\ ConversationState' = "Listening"
       /\ messages' = Append(messages, FallbackMsg)
       /\ ~Playing']_vars

\* C21: the decoding yields bytes only for a string of even length made of
\* hex digits, one byte per two characters; any other string is rejected.
AllHex(h) == \A i \in 1..Len(h) : h[i] \in DOMAIN HexDigit

C21_DecodeRejectsMalformed ==
  decodeResult = "bytes" =>
    (Len(decodeInput) % 2 = 0 /\ AllHex(decodeInput) /\ 2 * Len(binary) = Len(decodeInput))

\* C22: a successful response without audio appends the two messages and
\* leaves the controller in Listening with an open of the source under way;
\* no playback is started and the status is never 'speaking', in the handler
\* and in the continuation of onstop that follows it.
C22_NoAudioToListening ==
  /\ [][FetchDone("noaudio") =>
          /\ ConversationState' = "Listening"
          /\ openPending' = openPending + 1
          /\ messages' = messages \o <<UserMsg("hello"), AssistantMsg("hi there")>>
          /\ playbacks' = playbacks
          /\ ~Playing'
          /\ micro' = <<"onstopCont">>]_vars
  /\ [][OnStopCont => (status' = "waiting" /\ playbacks' = playbacks /\ player' = player)]_vars

\* the round trip is over, no reply was ever played, a source is open
C22_Witness ==
  /\ Len(messages) = 2
  /\ messages[2] = AssistantMsg("hi there")
  /\ playbacks = 0
  /\ ConversationState = "Listening"
  /\ ~isRecordingRef
  /\ micro = <<>>
  /\ vadRef

\* The component with a microphone that can be lost during a recording, and
\* a service whose responses carry no audio.
SilentOutcomes == {"noaudio", "fail"}

EndsNext ==
  \/ Mount
  \/ OpenResolved
  \/ OpenDenied
  \/ \E rms \in RmsValues : AudioFrame(rms)
  \/ RecResolved
  \/ RecDenied
  \/ TimerFires
  \/ \E captured \in BOOLEAN : RecorderEnds(captured)
  \/ StaleTimerFires
  \/ OnStop
  \/ \E outcome \in SilentOutcomes : FetchDone(outcome)
  \/ OnStopCont

EndsSpec == Init /\ [][EndsNext]_vars

(***************************************************************************)
(* The close of the source alone: stopListening on the four refs, after    *)
(* opens that set all of them or stop at the first.                        *)
(***************************************************************************)
\* One guarded block of stopListening: the release, then the ref set to null.
releaseRef(r, ref, op) ==
  IF r.refs[ref]
    THEN [refs |-> [r.refs EXCEPT ![ref] = FALSE], released |-> Append(r.released, op)]
    ELSE r

\* A faulty variant: the blocks are not guarded.
stopListeningRefs_unguarded(r) ==
  [refs |-> NoRefs,
   released |-> r.released \o <<"processor.disconnect", "source.disconnect",
                                "audioContext.close", "track.stop">>]

\* stopListening, ref by ref.
stopListeningRefs(r) ==
  releaseRef(releaseRef(releaseRef(releaseRef(r,
    "processorRef", "processor.disconnect"),
    "sourceRef", "source.disconnect"),
    "audioContextRef", "audioContext.close"),
    "streamRef", "track.stop")

CurRefs == [refs |-> sourceRefs, released |-> released]

CloseInit == Constructed /\ Undecoded /\ Unopened /\ Unframed /\ turnLimit = MaxTurns

\* The try block of startListening after getUserMedia: every ref is
\* assigned, or the AudioContext cannot be made and only streamRef is.
OpenSource(whole) ==
  /\ opens < MaxOpens
  /\ opens' = opens + 1
  /\ sourceRefs' = IF whole
                     THEN [processorRef |-> TRUE, sourceRef |-> TRUE,
                           audioContextRef |-> TRUE, streamRef |-> TRUE]
                     ELSE [sourceRefs EXCEPT !.streamRef = TRUE]
  /\ UNCHANGED <<prog, det, turnLimit, decodeInput, binary, decodeResult, released, closes, vis>>

CloseSource ==
  /\ closes < MaxCloses
  /\ closes' = closes + 1
  /\ sourceRefs' = stopListeningRefs(CurRefs).refs
  /\ released' = stopListeningRefs(CurRefs).released
  /\ UNCHANGED <<prog, det, turnLimit, decodeInput, binary, decodeResult, opens, vis>>

CloseNext ==
  \/ \E whole \in BOOLEAN : OpenSource(whole)
  \/ CloseSource

CloseSpec == CloseInit /\ [][CloseNext]_vars

(***************************************************************************)
(* The bands of the visualization alone: the eight values onaudioprocess   *)
(* computes from one frame.  Samples are in hundredths; a band's value is  *)
(* kept as the fraction num/den that is its square, or as NaN.             *)
(***************************************************************************)
NUM_BARS == 8

\* Silence, a quiet sample, a sample at full scale (negative).
SampleValues == {0, 5, -100}

\* Every frame up to ShortLen samples, and the frames up to LongLen samples
\* in which two values alternate.
Frames ==
  UNION {[1..n -> SampleValues] : n \in 0..ShortLen}
    \cup {[k \in 1..n |-> IF k % 2 = 1 THEN a ELSE b] :
            n \in (ShortLen + 1)..LongLen, a \in SampleValues, b \in SampleValues}

bandSize(n) == n \div NUM_BARS

bandStart(i, n) == i * bandSize(n)

\* A faulty variant: the last band ends like the others.
bandEnd_even(i, n) == (i + 1) * bandSize(n)

bandEnd(i, n) == IF i = NUM_BARS - 1 THEN n ELSE (i + 1) * bandSize(n)

\* inputData.slice(start, end), for 0 <= start <= end <= length
slice(q, start, end) == SubSeq(q, start + 1, end)

RECURSIVE SumSq(_)
SumSq(q) == IF q = <<>> THEN 0 ELSE Head(q) * Head(q) + SumSq(Tail(q))

\* Math.min(1, Math.sqrt(sum / band.length) * 10): 0 / 0 is NaN, and so are
\* its square root and Math.min(1, NaN).
bandValue(band) ==
  IF Len(band) = 0
    THEN [isNaN |-> TRUE, num |-> 0, den |-> 0]
    ELSE LET sq == SumSq(band)
             one == 100 * Len(band)
         IN  [isNaN |-> FALSE, num |-> IF sq >= one THEN one ELSE sq, den |-> one]

computeBands(f) ==
  [p \in 1..NUM_BARS |->
     LET start == bandStart(p - 1, Len(f))
         end == bandEnd(p - 1, Len(f))
     IN  [start |-> start, end |-> end, value |-> bandValue(slice(f, start, end))]]

BandInit ==
  /\ Constructed
  /\ Undecoded
  /\ Unopened
  /\ turnLimit = MaxTurns
  /\ frame \in Frames
  /\ bands = <<>>

ComputeBands ==
  /\ bands = <<>>
  /\ bands' = computeBands(frame)
  /\ UNCHANGED <<prog, det, turnLimit, decodeInput, binary, decodeResult, capt, frame>>

BandNext == ComputeBands

BandSpec == BandInit /\ [][BandNext]_vars

\* C23: when a RecordingSession ends with nothing captured, no request is
\* sent and the controller is in Listening.
C23_EmptyRecordingDiscarded ==
  [][(OnStop /\ gathered = 0) =>
       (inflight' = inflight /\ ConversationState' = "Listening")]_vars

C25_ErrorCompletesLikeEnd ==
  [][(PlaybackError \/ PlayRejected(TRUE) \/ PlayCatch \/ NaturalEnd) =>
       /\ ConversationState' = "Listening"
       /\ openPending' = openPending + 1
       /\ completions' = completions + 1
       /\ messages' = messages
       /\ recPending' = recPending]_vars

C25_Witness ==
  /\ player = "failed"
  /\ completions = 1
  /\ ConversationState = "Listening"
  /\ vadRef
  /\ openPending = 0
  /\ micro = <<>>

\* C26: a microphone stream acquired for a RecordingSession is live only
\* while its recorder is capturing or its stop is being handled: once the
\* session has ended, the stream is released.
C26_StreamsReleased == micStreams <= recorders + stopQueued

\* C27: a close with every ref null releases nothing and changes nothing, no
\* release is done on a null ref, and a close after a close leaves what the
\* first left.
C27_CloseIdempotent ==
  /\ [][(CloseSource /\ sourceRefs = NoRefs) =>
          (sourceRefs' = sourceRefs /\ released' = released)]_vars
  /\ [][CloseSource =>
          /\ sourceRefs' = NoRefs
          /\ Len(released') - Len(released) = Cardinality({f \in DOMAIN sourceRefs : sourceRefs[f]})
          /\ stopListeningRefs(CurRefs)' = CurRefs']_vars

C27_Witness ==
  /\ closes = 2
  /\ opens = 1
  /\ sourceRefs = NoRefs
  /\ released = <<"processor.disconnect", "source.disconnect", "audioContext.close", "track.stop">>

\* C28: every step leaves the log as a prefix of the log after it, only the
\* end of a round trip changes the log, and it appends that round trip's
\* messages in order: the user's then the assistant's, or the fallback alone.
C28_LogAppendOnly ==
  /\ [][/\ Len(messages') >= Len(messages)
        /\ SubSeq(messages', 1, Len(messages)) = messages]_vars
  /\ [][(messages' # messages) => \E outcome \in Outcomes : FetchDone(outcome)]_vars
  /\ [][\A outcome \in Outcomes :
          FetchDone(outcome) =>
            messages' = messages \o (IF outcome = "fail"
                                       THEN <<FallbackMsg>>
                                       ELSE <<UserMsg("hello"), AssistantMsg("hi there")>>)]_vars

C28_Witness ==
  /\ Len(messages) = 3
  /\ messages[1] = UserMsg("hello")
  /\ messages[2] = AssistantMsg("hi there")
  /\ messages[3] = FallbackMsg

\* C29: a started controller that is not in Listening has something left
\* that can move it: an open, a recording or a request under way, a
\* continuation to run, a playback or an error event to deliver, or a source
\* that delivers frames.
C29_NeverStuck ==
  (started /\ ConversationState # "Listening") =>
    \/ openPending + recPending + recorders + stopQueued + inflight > 0
    \/ micro # <<>>
    \/ Playing
    \/ errorQueued /\ handlers
    \/ OpenSources > 0

\* The ranges of the bands lie end to start from 0 to the frame's length, so
\* that every sample is in exactly one band; the first seven are
\* floor(n / 8) long and the last has the rest.
BandRanges ==
  LET n == Len(frame)
  IN  /\ bands[1].start = 0
      /\ bands[NUM_BARS].end = n
      /\ \A p \in 1..NUM_BARS : bands[p].start <= bands[p].end
      /\ \A p \in 1..(NUM_BARS - 1) :
            /\ bands[p].end = bands[p + 1].start
            /\ bands[p].end - bands[p].start = n \div 8
      /\ bands[NUM_BARS].end - bands[NUM_BARS].start = n - 7 * (n \div 8)
      /\ \A k \in 0..(n - 1) :
            Cardinality({p \in 1..NUM_BARS : bands[p].start <= k /\ k < bands[p].end}) = 1

\* Every band's value is a number from 0 to 1.
BandValuesInUnit ==
  \A p \in 1..NUM_BARS :
    /\ ~bands[p].value.isNaN
    /\ 0 <= bands[p].value.num
    /\ bands[p].value.num <= bands[p].value.den

C31_StopHandlerKeepsSpeaking ==
  [][(OnStopCont /\ Playing) => (Playing' /\ ConversationState' = "Speaking")]_vars

\* C32: whenever isRecordingRef is set, a RecordingSession is being acquired
\* or is capturing, or a round trip is unresolved.
C32_FlagHasOwner == isRecordingRef => recPending + recorders + RoundTrips > 0

\* C33: when the getUserMedia of startRecording is rejected, the flag is
\* cleared and the controller is in Listening with one more open of the
\* AudioFrameSource under way.
C33_DeniedRecordingRecovers ==
  [][RecDenied =>
       /\ ~isRecordingRef'
       /\ ConversationState' = "Listening"
       /\ openPending' = openPending + 1]_vars

\* C34: an open that was under way when stopListening was called leaves
\* nothing open when it resolves: no source is set and none is added.
C34_CloseWinsOverPendingOpen ==
  [][(OpenResolved /\ overtaken > 0) => (~vadRef' /\ OpenSources' <= OpenSources)]_vars

\* C35: a recorder stops once (by its timer while it is recording, or by
\* the end of its stream), each stop queues the stop handler once, each run
\* of the stop handler sends one request, nothing else sends one, and a
\* timer that fires after its recorder has stopped changes nothing.
C35_FinalizedOnce ==
  /\ [][TimerFires => (recorders > 0 /\ recorders' = recorders - 1 /\ stopQueued' = stopQueued + 1)]_vars
  /\ [][(stopQueued' > stopQueued) =>
          /\ TimerFires \/ \E captured \in BOOLEAN : RecorderEnds(captured)
          /\ stopQueued' = stopQueued + 1
          /\ recorders' = recorders - 1]_vars
  /\ [][OnStop => (stopQueued' = stopQueued - 1 /\ inflight' = inflight + 1)]_vars
  /\ [][(inflight' > inflight) => OnStop]_vars
  /\ [][StaleTimerFires =>
          /\ recorders' = recorders
          /\ stopQueued' = stopQueued
          /\ inflight' = inflight
          /\ status' = status
          /\ messages' = messages]_vars

C35_Witness ==
  /\ turns = 1
  /\ micStreams = 0
  /\ staleTimers = 0
  /\ recorders = 0
  /\ stopQueued = 0
  /\ inflight = 1

\* C36: a session is stopped only by its own timer or by the end of its
\* stream, and the timer of an earlier session that fires while a later
\* session is being acquired or is capturing leaves that session, its data
\* and the stop handlers alone.
C36_TimerStopsOwnSession ==
  /\ [][(recorders' < recorders) =>
          (TimerFires \/ \E captured \in BOOLEAN : RecorderEnds(captured))]_vars
  /\ [][(StaleTimerFires /\ recPending + recorders > 0) =>
          /\ recPending' = recPending
          /\ recorders' = recorders
          /\ gathered' = gathered
          /\ audioChunksRef' = audioChunksRef
          /\ stopQueued' = stopQueued]_vars

C36_Witness ==
  /\ staleFired
  /\ recorders = 1
  /\ turns = 2
  /\ staleTimers = 0

\* C37: a step that starts a session empties the buffer, and the Blob the
\* stop handler sends is made of the one chunk its recorder delivered: the
\* buffer holds that chunk alone.
C37_OwnChunksOnly ==
  /\ [][(recPending' > recPending) => audioChunksRef' = <<>>]_vars
  /\ [][OnStop => (audioChunksRef' = <<gathered>> /\ utterance' = gathered)]_vars

C37_Witness ==
  /\ turns = 2
  /\ inflight = 1
  /\ audioChunksRef = <<1>>
  /\ utterance = 1
  /\ messages # <<>>

\* C38: the step that ends a request adds to the log either the user's
\* message and the assistant's reply (the request succeeded) or the fallback
\* message alone (it failed), and the rest of the round trip adds nothing.
C38_OneAppendPerRoundTrip ==
  /\ [][\A outcome \in Outcomes :
          FetchDone(outcome) =>
            LET added == SubSeq(messages', Len(messages) + 1, Len(messages'))
            IN  /\ inflight' = inflight - 1
                /\ \/ outcome # "fail" /\ added = <<UserMsg("hello"), AssistantMsg("hi there")>>
                   \/ outcome = "fail" /\ added = <<FallbackMsg>>]_vars
  /\ [][(OnStopCont \/ PlayCatch \/ PlayStarts \/ NaturalEnd \/ PlaybackError \/ DeliverError) =>
          messages' = messages]_vars

C38_Witness ==
  /\ Len(messages) = 3
  /\ messages[1] = FallbackMsg
  /\ messages[2] = UserMsg("hello")
  /\ messages[3] = AssistantMsg("hi there")
  /\ inflight = 0

====
